---- MODULE Spec2Model ----
(***************************************************************************)
(* Model of src/Private/predictor_server.py: the CommandPredictor          *)
(* singleton (generative proposals merged with TF-IDF scored history) and  *)
(* the websocket session handler that dispatches predict/record requests.  *)
(*                                                                         *)
(* Strings are sequences of one-character strings, so that startswith,     *)
(* lower-casing and tokenisation are computed character by character.      *)
(* Scores are fixed-point numbers in thousandths (0.8 is 800).             *)
(***************************************************************************)
EXTENDS Integers, Sequences, FiniteSets, TLC

VARIABLES
    vectorizer,   \* predictor.vectorizer: the fitted state of the shared TfidfVectorizer
    db,           \* rows of the command_history table of commands.db
    call,         \* the last predict_next_command call: arguments, proposer outcome, result
    history,      \* the history list the caller is building for its next direct call
    pos,          \* per connection: where websocket_endpoint stands
    connected,    \* per connection: the transport is still connected
    log,          \* per connection: the messages received, each with the reply sent for it
    failedSends   \* per connection: send_json calls made on a disconnected transport

vars == <<vectorizer, db, call, history, pos, connected, log, failedSends>>

(***************************************************************************)
(* Bounds and program constants                                            *)
(***************************************************************************)
MaxHist == 4              \* longest history list a caller passes
MaxMsgs == 3              \* messages received over all connections in one run

GenScore == 800           \* "score": 0.8 of a generative candidate
TopK == 3                 \* np.argsort(scores)[-3:]
NumReturnSequences == 3   \* num_return_sequences=3
NgramMax == 3             \* ngram_range=(1, 3)

(***************************************************************************)
(* The strings of the model                                                *)
(***************************************************************************)
StrEmpty == << >>
StrGit == <<"g", "i", "t", " ">>
StrGitStatus == <<"g", "i", "t", " ", "s", "t", "a", "t", "u", "s">>
StrLs == <<"l", "s">>
StrLsUpper == <<"L", "S">>

\* current_input values, history entries, decoded generative outputs
Inputs == {StrEmpty, StrGit, StrGitStatus, StrLs}
HistStrings == {StrEmpty, StrGitStatus, StrLsUpper}
OutStrings == {StrGitStatus, StrLs}

(***************************************************************************)
(* Helpers                                                                 *)
(***************************************************************************)
Range(s) == {s[i] : i \in DOMAIN s}

\* str.startswith
StartsWith(s, prefix) ==
    /\ Len(prefix) <= Len(s)
    /\ SubSeq(s, 1, Len(prefix)) = prefix

(***************************************************************************)
(* TfidfVectorizer(ngram_range=(1, 3)) with its defaults: lowercase=True,  *)
(* token_pattern (?u)\b\w\w+\b, smooth_idf=True, norm="l2"                 *)
(***************************************************************************)
LowerChar(ch) ==
    CASE ch = "L" -> "l"
      [] ch = "S" -> "s"
      [] OTHER -> ch

Lower(s) == [i \in DOMAIN s |-> LowerChar(s[i])]

\* \w over the characters of the model: everything but the blank
IsWordChar(ch) == ch # " "

\* the maximal runs of word characters that are at least two characters long
RECURSIVE TokenScan(_, _, _, _)
TokenScan(s, i, word, tokens) ==
    LET flushed == IF Len(word) >= 2 THEN Append(tokens, word) ELSE tokens IN
    IF i > Len(s) THEN flushed
    ELSE IF IsWordChar(s[i]) THEN TokenScan(s, i + 1, Append(word, s[i]), tokens)
    ELSE TokenScan(s, i + 1, << >>, flushed)

Tokenize(s) == TokenScan(Lower(s), 1, << >>, << >>)

\* the word n-grams of a document, one entry per occurrence, as <<start, n>> positions
GramPositions(tokens) ==
    {p \in (1..Len(tokens)) \X (1..NgramMax) : p[1] + p[2] - 1 <= Len(tokens)}

GramAt(tokens, p) == SubSeq(tokens, p[1], p[1] + p[2] - 1)

\* the analyzer's output per string of the model, computed once: for each term
\* of the document, the number of its occurrences (the term frequency)
TermCounts ==
    [s \in Inputs \cup HistStrings \cup OutStrings |->
        LET t == Tokenize(s) IN
        [term \in {GramAt(t, p) : p \in GramPositions(t)} |->
            Cardinality({p \in GramPositions(t) : GramAt(t, p) = term})]]

Terms(doc) == DOMAIN TermCounts[doc]

TermCount(doc, term) == IF term \in Terms(doc) THEN TermCounts[doc][term] ELSE 0

\* 10 * ln(k), rounded, for k = 1..8
LnTimesTen == <<0, 7, 11, 14, 16, 18, 19, 21>>

\* smooth idf in tenths: ln((1 + n) / (1 + df)) + 1
Idf(n, df) == 10 + LnTimesTen[1 + n] - LnTimesTen[1 + df]

Unfitted == [fitted |-> FALSE, idf |-> << >>]

Vocabulary(docs) == UNION {Terms(docs[i]) : i \in DOMAIN docs}

DocFreq(docs, term) == Cardinality({i \in DOMAIN docs : term \in Terms(docs[i])})

\* a bug this model is checked against: a vectorizer that is fitted only once
FitOnce(vec, docs) ==
    IF vec.fitted THEN vec
    ELSE [fitted |-> TRUE,
          idf |-> [term \in Vocabulary(docs) |-> Idf(Len(docs), DocFreq(docs, term))]]

\* self.vectorizer.fit(docs), for a corpus with a non-empty vocabulary: the
\* vocabulary and the idf weights are rebuilt from docs, whatever was fitted before
Fit(vec, docs) ==
    [fitted |-> TRUE,
     idf |-> [term \in Vocabulary(docs) |-> Idf(Len(docs), DocFreq(docs, term))]]

\* one row of vectorizer.transform: tf * idf on the fitted vocabulary, before the l2 norm
Weight(vec, doc, term) == TermCount(doc, term) * vec.idf[term]

\* the product of two rows of the tf-idf matrix, summed over the given terms
RECURSIVE DotOver(_, _, _, _)
DotOver(vec, a, b, terms) ==
    IF terms = {} THEN 0
    ELSE LET term == CHOOSE t \in terms : TRUE IN
         Weight(vec, a, term) * Weight(vec, b, term) + DotOver(vec, a, b, terms \ {term})

Dot(vec, a, b) == DotOver(vec, a, b, DOMAIN vec.idf)

RECURSIVE SqrtSearch(_, _, _)
SqrtSearch(x, lo, hi) ==
    IF lo >= hi THEN lo
    ELSE LET mid == (lo + hi + 1) \div 2 IN
         IF mid * mid <= x THEN SqrtSearch(x, mid, hi) ELSE SqrtSearch(x, lo, mid - 1)

ISqrt(x) == SqrtSearch(x, 0, 46340)

\* (similarities * history_matrix.T) for one history row: the cosine of the two
\* l2-normalised rows, in thousandths
Similarity(vec, query, doc) ==
    LET d == Dot(vec, query, doc) IN
    IF d = 0 THEN 0
    ELSE (1000 * d) \div ISqrt(Dot(vec, query, query) * Dot(vec, doc, doc))

(***************************************************************************)
(* CommandPredictor.predict_next_command                                   *)
(***************************************************************************)
\* a bug this model is checked against: the startswith filter is left out
MlPredictionsUnfiltered(current_input, outputs) == outputs

\* the decoded outputs that start with current_input, in the proposer's order
MlPredictions(current_input, outputs) ==
    SelectSeq(outputs, LAMBDA decoded : StartsWith(decoded, current_input))

\* scores = (similarities * history_matrix.T).A[0]; equal history entries have
\* equal rows, so the score is computed once per distinct entry
Scores(vec, current_input, hist) ==
    LET byDoc == [doc \in Range(hist) |-> Similarity(vec, current_input, doc)]
    IN [i \in DOMAIN hist |-> byDoc[hist[i]]]

\* np.argsort(scores): the indices by ascending score; numpy sorts arrays this
\* short by insertion, so equal scores keep their ascending index order
ArgSort(scores) ==
    LET n == Len(scores)
        before(j, i) == scores[j] < scores[i] \/ (scores[j] = scores[i] /\ j < i)
        rank(i) == 1 + Cardinality({j \in 1..n : before(j, i)})
    IN [r \in 1..n |-> CHOOSE i \in 1..n : rank(i) = r]

\* seq[-k:]
LastK(seq, k) ==
    IF Len(seq) <= k THEN seq ELSE SubSeq(seq, Len(seq) - k + 1, Len(seq))

Candidate(command, score) == [command |-> command, score |-> score]

NoneSeen == [combined |-> << >>, seen |-> {}]

\* if c not in seen: combined_predictions.append(...); seen.add(c)
AddUnseen(acc, cand) ==
    IF cand.command \in acc.seen THEN acc
    ELSE [combined |-> Append(acc.combined, cand), seen |-> acc.seen \cup {cand.command}]

\* one of the two merge loops, over the candidates cands[i..]
RECURSIVE MergeLoop(_, _, _)
MergeLoop(acc, cands, i) ==
    IF i > Len(cands) THEN acc ELSE MergeLoop(AddUnseen(acc, cands[i]), cands, i + 1)

GenCandidates(ml) == [i \in DOMAIN ml |-> Candidate(ml[i], GenScore)]

\* the history entries picked by np.argsort(scores)[-3:], in loop order
HistCandidates(hist, scores) ==
    LET picked == LastK(ArgSort(scores), TopK)
    IN [k \in DOMAIN picked |-> Candidate(hist[picked[k]], scores[picked[k]])]

CombinedPredictions(ml, hist, scores) ==
    MergeLoop(MergeLoop(NoneSeen, GenCandidates(ml), 1),
              HistCandidates(hist, scores), 1).combined

Returned(predictions) == [exc |-> "", predictions |-> predictions]
Raised(exc) == [exc |-> exc, predictions |-> << >>]

\* a bug this model is checked against: the scorer is fitted without the
\* "if history" guard, so an empty history reaches fit
predict_always_fitting(vec, current_input, hist, gen) ==
    IF ~gen.ok THEN [vectorizer |-> vec, result |-> Raised("GenerationError")]
    ELSE LET ml == MlPredictions(current_input, gen.outputs) IN
         IF Vocabulary(hist) = {}
         THEN [vectorizer |-> vec, result |-> Raised("ValueError")]
         ELSE LET fitted == Fit(vec, hist)
                  scores == Scores(fitted, current_input, hist)
              IN [vectorizer |-> fitted,
                  result |-> Returned(CombinedPredictions(ml, hist, scores))]

\* The whole call. gen is the outcome of tokenizer + model.generate + decode:
\* [ok |-> FALSE] when it raises, else the decoded outputs. Gives the
\* vectorizer after the call and what the call returned or raised.
predict_next_command(vec, current_input, hist, gen) ==
    IF ~gen.ok THEN [vectorizer |-> vec, result |-> Raised("GenerationError")]
    ELSE LET ml == MlPredictions(current_input, gen.outputs) IN
         IF hist # << >> THEN
            IF Vocabulary(hist) = {}
            THEN \* fit raises "empty vocabulary" before it stores anything
                 [vectorizer |-> vec, result |-> Raised("ValueError")]
            ELSE LET fitted == Fit(vec, hist)
                     scores == Scores(fitted, current_input, hist)
                 IN [vectorizer |-> fitted,
                     result |-> Returned(CombinedPredictions(ml, hist, scores))]
         ELSE [vectorizer |-> vec, result |-> Returned(GenCandidates(ml))]

(***************************************************************************)
(* CommandPredictor.record_command                                         *)
(***************************************************************************)
\* a bug this model is checked against: the failure of the INSERT is swallowed
record_command_swallowing(rows, command, context, fails) ==
    [rows |-> IF fails THEN rows ELSE Append(rows, <<command, context>>), exc |-> ""]

\* The INSERT and the commit. fails is sqlite3 raising (database locked or
\* read-only, disk full): nothing is stored and the exception propagates.
record_command(rows, command, context, fails) ==
    IF fails THEN [rows |-> rows, exc |-> "OperationalError"]
    ELSE [rows |-> Append(rows, <<command, context>>), exc |-> ""]

(***************************************************************************)
(* The proposer's outcomes                                                 *)
(***************************************************************************)
OutputSeqs == [1..NumReturnSequences -> OutStrings]

GenOutcomes ==
    {[ok |-> TRUE, outputs |-> o] : o \in OutputSeqs} \cup {[ok |-> FALSE, outputs |-> << >>]}

(***************************************************************************)
(* State                                                                   *)
(***************************************************************************)
Conns == {"c1", "c2"}

NoCall ==
    [made |-> FALSE, current_input |-> << >>, history |-> << >>,
     gen |-> [ok |-> FALSE, outputs |-> << >>], result |-> Raised(""), stale |-> FALSE]

\* the record of a call made with the vectorizer in state vec, which gave out
CallRecord(vec, current_input, hist, gen, out) ==
    [made |-> TRUE, current_input |-> current_input, history |-> hist, gen |-> gen,
     result |-> out.result,
     stale |-> vec.fitted /\ out.vectorizer # vec]

Init ==
    /\ vectorizer = Unfitted
    /\ db = << >>
    /\ call = NoCall
    /\ history = << >>
    /\ pos = [c \in Conns |-> "receiving"]
    /\ connected = [c \in Conns |-> TRUE]
    /\ log = [c \in Conns |-> << >>]
    /\ failedSends = [c \in Conns |-> 0]

session == <<db, pos, connected, log, failedSends>>

(***************************************************************************)
(* Direct calls of predictor.predict_next_command                          *)
(***************************************************************************)
\* the caller extends the history list of its next call
AppendHistory(s) ==
    /\ call = NoCall
    /\ Len(history) < MaxHist
    /\ history' = Append(history, s)
    /\ UNCHANGED <<vectorizer, call, session>>

Predict(current_input, gen) ==
    /\ call = NoCall
    /\ LET out == predict_next_command(vectorizer, current_input, history, gen) IN
        /\ call' = CallRecord(vectorizer, current_input, history, gen, out)
        /\ vectorizer' = out.vectorizer
    /\ UNCHANGED <<history, session>>

\* the caller is done with the result and starts its next request
NextRequest ==
    /\ call # NoCall
    /\ call' = NoCall
    /\ history' = << >>
    /\ UNCHANGED <<vectorizer, session>>

(***************************************************************************)
(* websocket_endpoint: one connection's receive loop                       *)
(***************************************************************************)
\* the text frames a client sends: text that is not JSON, or a JSON object
NotJson == [json |-> FALSE, request |-> << >>]
Json(request) == [json |-> TRUE, request |-> request]

Frames ==
    { NotJson,
      Json([current_input |-> StrGit]),
      Json([type |-> "unknown"]),
      Json([type |-> "predict"]),
      Json([type |-> "predict", current_input |-> StrLs]),
      Json([type |-> "predict", current_input |-> StrGit,
            history |-> <<StrGitStatus, StrLsUpper>>]),
      Json([type |-> "predict", current_input |-> StrLs, history |-> <<StrEmpty>>]),
      Json([type |-> "record"]),
      Json([type |-> "record", command |-> StrLs]),
      Json([type |-> "record", command |-> StrGitStatus, context |-> StrGit]) }

\* request["key"] raises KeyError when the key is missing
Has(request, key) == key \in DOMAIN request

\* request.get(key, default)
Get(request, key, default) == IF Has(request, key) THEN request[key] ELSE default

\* json.loads(data) and request["type"] both succeed
HasType(data) == data.json /\ Has(data.request, "type")

Entry(kind, reply, genFailed, stored) ==
    [kind |-> kind, reply |-> reply, genFailed |-> genFailed, stored |-> stored]

RECURSIVE Received(_)
Received(conns) ==
    IF conns = {} THEN 0
    ELSE LET c == CHOOSE x \in conns : TRUE IN Len(log[c]) + Received(conns \ {c})

\* the handler is suspended in websocket.receive_text()
Waiting(c) == pos[c] = "receiving" /\ connected[c] /\ Received(Conns) < MaxMsgs

\* what the handler does after the request was handled: an exception is caught
\* outside the loop, answered with one error envelope, and the handler returns
Answer(c, kind, ok, success, genFailed, stored) ==
    /\ log' = [log EXCEPT ![c] =
                 Append(@, Entry(kind, IF ok THEN success ELSE "error", genFailed, stored))]
    /\ pos' = [pos EXCEPT ![c] = IF ok THEN "receiving" ELSE "closed"]
    /\ UNCHANGED <<connected, failedSends, history>>

\* json.loads raises, or request["type"] raises KeyError
HandleMalformed(c, data) ==
    /\ Waiting(c)
    /\ ~HasType(data)
    /\ Answer(c, "malformed", FALSE, "error", FALSE, FALSE)
    /\ UNCHANGED <<vectorizer, db, call>>

\* request["type"] == "predict"
HandlePredict(c, data, gen) ==
    /\ Waiting(c)
    /\ HasType(data)
    /\ data.request.type = "predict"
    /\ IF ~Has(data.request, "current_input")
       THEN /\ Answer(c, "predict", FALSE, "predictions", FALSE, FALSE)
            /\ UNCHANGED <<vectorizer, db, call>>
       ELSE LET current_input == data.request.current_input
                hist == Get(data.request, "history", << >>)
                out == predict_next_command(vectorizer, current_input, hist, gen)
            IN /\ vectorizer' = out.vectorizer
               /\ call' = CallRecord(vectorizer, current_input, hist, gen, out)
               /\ Answer(c, "predict", out.result.exc = "", "predictions", ~gen.ok, FALSE)
               /\ UNCHANGED db

\* request["type"] == "record"
HandleRecord(c, data, fails) ==
    /\ Waiting(c)
    /\ HasType(data)
    /\ data.request.type = "record"
    /\ IF ~Has(data.request, "command")
       THEN /\ Answer(c, "record", FALSE, "recorded", FALSE, FALSE)
            /\ UNCHANGED <<vectorizer, db, call>>
       ELSE LET out == record_command(db, data.request.command,
                                      Get(data.request, "context", StrEmpty), fails)
            IN /\ db' = out.rows
               /\ Answer(c, "record", out.exc = "", "recorded", FALSE, out.rows # db)
               /\ UNCHANGED <<vectorizer, call>>

\* any other type: neither branch is taken, nothing is sent, the loop goes on
HandleOther(c, data) ==
    /\ Waiting(c)
    /\ HasType(data)
    /\ data.request.type \notin {"predict", "record"}
    /\ log' = [log EXCEPT ![c] = Append(@, Entry("other", "none", FALSE, FALSE))]
    /\ UNCHANGED <<vectorizer, db, call, history, pos, connected, failedSends>>

\* The client goes away while the handler waits: receive_text raises
\* WebSocketDisconnect, an Exception, so the except clause runs and calls
\* send_json on the disconnected transport; the handler ends either way.
Disconnect(c) ==
    /\ pos[c] = "receiving"
    /\ connected[c]
    /\ connected' = [connected EXCEPT ![c] = FALSE]
    /\ failedSends' = [failedSends EXCEPT ![c] = @ + 1]
    /\ pos' = [pos EXCEPT ![c] = "closed"]
    /\ UNCHANGED <<vectorizer, db, call, history, log>>

Next ==
    \/ \E c \in Conns, data \in Frames : HandleMalformed(c, data)
    \/ \E c \in Conns, data \in Frames, gen \in GenOutcomes : HandlePredict(c, data, gen)
    \/ \E c \in Conns, data \in Frames, fails \in BOOLEAN : HandleRecord(c, data, fails)
    \/ \E c \in Conns, data \in Frames : HandleOther(c, data)
    \/ \E c \in Conns : Disconnect(c)

Spec == Init /\ [][Next]_vars

NextEngine ==
    \/ \E s \in HistStrings : AppendHistory(s)
    \/ \E current_input \in Inputs, gen \in GenOutcomes : Predict(current_input, gen)
    \/ NextRequest

SpecEngine == Init /\ [][NextEngine]_vars

(***************************************************************************)
(* Properties                                                              *)
(***************************************************************************)
Entries(c) == {log[c][i] : i \in DOMAIN log[c]}

LastEntry(c) == log[c][Len(log[c])]

\* the first position of x in seq, Len(seq) + 1 when x is not in seq
FirstPos(seq, x) ==
    IF \E i \in DOMAIN seq : seq[i] = x
    THEN CHOOSE i \in DOMAIN seq : seq[i] = x /\ \A j \in 1..(i - 1) : seq[j] # x
    ELSE Len(seq) + 1

\* the outputs that begin with current_input, in proposer order, each at 0.8
KeptOutputs(current_input, outputs) ==
    LET kept == {i \in DOMAIN outputs : StartsWith(outputs[i], current_input)}
        nth(k) == CHOOSE i \in kept : Cardinality({j \in kept : j < i}) = k - 1
    IN [k \in 1..Cardinality(kept) |-> [command |-> outputs[nth(k)], score |-> 800]]

CallReturned == call.made /\ call.result.exc = ""

\* C1: the list a predict call returns holds no two candidates with the same
\* command string, for every input, history (empty or not) and outputs.
C1_NoDuplicateCommands ==
    CallReturned =>
        \A i, j \in DOMAIN call.result.predictions :
            i # j => call.result.predictions[i].command # call.result.predictions[j].command

\* C2: every message received on an open connection has been answered with an
\* envelope (predictions, recorded or error) when the handler waits again.
C2_EveryMessageAnswered ==
    \A c \in Conns : \A e \in Entries(c) : e.reply \in {"predictions", "recorded", "error"}

\* C3: after a message with an unknown type or a malformed payload the handler
\* has sent one error envelope and is back in the receive loop.
C3_ErrorKeepsSessionOpen ==
    \A c \in Conns :
        (connected[c] /\ log[c] # << >> /\ LastEntry(c).kind \in {"other", "malformed"})
            => (LastEntry(c).reply = "error" /\ pos[c] = "receiving")

\* C4: with a non-empty history the returned list is the generative candidates
\* in proposer order, then the history candidates by descending score, equal
\* scores by ascending history index.
C4_GenerativeThenHistoryDescending ==
    (CallReturned /\ call.history # << >>) =>
        LET r == call.result.predictions
            ml == KeptOutputs(call.current_input, call.gen.outputs)
            g == Cardinality({ml[i].command : i \in DOMAIN ml})
        IN /\ Len(r) >= g
           /\ \A i \in 1..g : r[i] \in Range(ml)
           /\ \A i, j \in 1..g :
                i < j => FirstPos(call.gen.outputs, r[i].command)
                            < FirstPos(call.gen.outputs, r[j].command)
           /\ \A i, j \in (g + 1)..Len(r) :
                i < j => /\ r[i].score >= r[j].score
                         /\ r[i].score = r[j].score
                              => FirstPos(call.history, r[i].command)
                                    < FirstPos(call.history, r[j].command)

\* C5: when the proposer raises, predict_next_command still returns a list (of
\* history candidates only) and the session answers with a predictions envelope.
C5_ProposerFailureDegrades ==
    /\ (call.made /\ ~call.gen.ok) =>
           /\ call.result.exc = ""
           /\ \A i \in DOMAIN call.result.predictions :
                call.result.predictions[i].command \in Range(call.history)
    /\ \A c \in Conns : \A e \in Entries(c) :
           (e.kind = "predict" /\ e.genFailed) => e.reply = "predictions"

\* C6: a record request is answered "recorded" only when its row was appended
\* to the store; when the append fails the answer is an error envelope, and the
\* store holds a row for every "recorded" sent.
C6_RecordedOnlyAfterAppend ==
    /\ \A c \in Conns : \A e \in Entries(c) :
           e.kind = "record" =>
               /\ e.reply = "recorded" => e.stored
               /\ ~e.stored => e.reply = "error"
    /\ \A c \in Conns :
           Cardinality({i \in DOMAIN log[c] : log[c][i].reply = "recorded"}) <= Len(db)

\* C7: a call with an empty history returns exactly the outputs that begin with
\* current_input, in proposer order, each with score 0.8, and leaves the
\* scorer's state as it was.
C7_EmptyHistoryGenerativeOnly ==
    [][(~call.made /\ call'.made /\ call'.history = << >> /\ call'.gen.ok) =>
            /\ vectorizer' = vectorizer
            /\ call'.result =
                 [exc |-> "",
                  predictions |-> KeptOutputs(call'.current_input, call'.gen.outputs)]]_vars

\* C8: every candidate of a returned list either begins with current_input and
\* has score 0.8, or is a history entry with its similarity score; an output
\* equal to current_input is kept.
C8_OnlyPrefixOutputsKept ==
    CallReturned =>
        LET r == call.result.predictions IN
        /\ \A i \in DOMAIN r :
             \/ StartsWith(r[i].command, call.current_input) /\ r[i].score = 800
             \/ \E k \in DOMAIN call.history :
                    /\ call.history[k] = r[i].command
                    /\ r[i].score = Similarity(vectorizer, call.current_input, call.history[k])
        /\ call.current_input \in Range(call.gen.outputs) =>
               [command |-> call.current_input, score |-> 800] \in Range(r)

\* C9: what a call returns is what the same call returns on a newly built
\* predictor: it depends on current_input, history and the outputs alone, not
\* on the calls that came before on the shared vectorizer.
C9_ResultDependsOnArgumentsOnly ==
    call.made =>
        call.result =
            predict_next_command(Unfitted, call.current_input, call.history, call.gen).result

\* C10: once the transport has disconnected under a waiting handler, the
\* handler calls send_json no more on that connection.
C10_NoSendAfterDisconnect ==
    \A c \in Conns : ~connected[c] => failedSends[c] = 0

(***************************************************************************)
(* Reachable cases of the properties above                                 *)
(***************************************************************************)
\* a record request answered "recorded" with its row stored, and a later one
\* whose append failed, answered with an error envelope
W6_RecordedAndFailedAppend ==
    \E c, d \in Conns :
        /\ \E e \in Entries(c) : e.kind = "record" /\ e.reply = "recorded" /\ e.stored
        /\ \E e \in Entries(d) : e.kind = "record" /\ e.reply = "error" /\ ~e.stored
        /\ Len(db) = 1

\* a call with an empty history on a vectorizer fitted by an earlier call; one
\* output was dropped and two were kept
W7_EmptyHistoryAfterFit ==
    /\ CallReturned
    /\ call.history = << >>
    /\ call.gen.ok
    /\ vectorizer.fitted
    /\ Len(call.result.predictions) = 2

\* a returned list with a kept output equal to current_input, a dropped output
\* and a history candidate that does not begin with current_input
W8_DroppedKeptAndHistory ==
    /\ CallReturned
    /\ call.current_input \in Range(call.gen.outputs)
    /\ \E i \in DOMAIN call.gen.outputs :
          ~StartsWith(call.gen.outputs[i], call.current_input)
    /\ \E i \in DOMAIN call.result.predictions :
          /\ ~StartsWith(call.result.predictions[i].command, call.current_input)
          /\ call.result.predictions[i].command \in Range(call.history)

\* a call that found the vectorizer fitted on another corpus, refitted it and
\* returned a history candidate with a positive score
W9_CallAfterOtherFit ==
    /\ CallReturned
    /\ call.stale
    /\ \E i \in DOMAIN call.result.predictions :
          /\ call.result.predictions[i].score \notin {0, 800}
          /\ call.result.predictions[i].command \in Range(call.history)

====
